---- MODULE Spec2Model ----
(***************************************************************************)
(* State-machine model of the news platform's article workflow             *)
(* (core/views.py, core/models.py, core/signals.py), its feed queries      *)
(* (core/api_views.py, core/views.py) and the subscription relations.      *)
(*                                                                         *)
(* In Spec every view is one atomic action: a request runs to completion   *)
(* (decorators, body, Model.save() and the post_save receiver it           *)
(* triggers).  ApproveSpec runs approve requests of several workers step   *)
(* by step, one database statement or mail hand-over per step.  ApiSpec is  *)
(* the API-key gateway (core/authentication.py) over the ApiClient table.  *)
(* SlugSpec is Article.save()'s slug generation, one query per step, over  *)
(* the title and slug columns of the Article table.  SignUpSpec is         *)
(* SignUpForm.save() (core/forms.py), one database statement per step,     *)
(* each of which may raise.  KeySpec is ApiClient.save() with its key      *)
(* generation.  FeedSpec answers feed requests over every table of         *)
(* MaxFeed articles and every subscription state.  SubscribeSpec runs the  *)
(* subscription and follow views over three publishers.                    *)
(***************************************************************************)
EXTENDS Integers, Sequences, FiniteSets, Bags, TLC

\* ------------------------------------------------------------------ bounds
MaxArticles == 1      \* at most this many Article rows are created
MaxWorkers == 2       \* approve requests that may be in progress at once
MaxClock == 3         \* the wall clock of the API gateway runs from 1 to this
MaxRows == 3          \* at most this many Article rows in the slug specification
MaxFeed == 2          \* Article rows in the table the feed requests read

\* ------------------------------------------------------- fixed population
None == "None"                  \* Python None / SQL NULL of a foreign key
NULL == 0                       \* SQL NULL of a DateTimeField
Anonymous == "anonymous"        \* request.user of a request without session

\* CustomUser rows: a reader, a journalist and an editor, one role group each
Users == {"r1", "j1", "e1"}
Publishers == {"p1"}
Actors == Users \cup {Anonymous}

\* CustomUser.groups (auth Group names)
groups ==
  [u \in Users |->
     CASE u = "r1" -> {"Reader"}
       [] u = "j1" -> {"Journalist"}
       [] OTHER -> {"Editor"}]

\* CustomUser.email is optional at sign-up; e1 registered without one
email ==
  [u \in Users |-> IF u = "e1" THEN "" ELSE u]

\* settings.EMAIL_HOST is configured (Django's default is 'localhost')
EMAIL_HOST == TRUE

\* Article.STATUS_CHOICES
STATUS_CHOICES == {"draft", "pending", "approved", "rejected", "published"}

\* request.method
Methods == {"GET", "POST"}

VARIABLES
  articles,                \* Article table: pk = index, value = the row
  subscribed_publishers,   \* CustomUser.subscribed_publishers (Publisher.subscribed_readers)
  subscribed_journalists,  \* CustomUser.subscribed_journalists (journalist_followers)
  group_permissions,       \* Group.permissions, per group name
  batches,                 \* per article: passes of the receiver's dispatch block
  outbox,                  \* messages of the latest dispatch block, as a bag over users
  outcome,                 \* response of the latest request: "login" (redirect to the
                           \* login page), "forbidden" (403), "not_found" (404), the level
                           \* of the flash message ("warning", "success", "info", "error")
                           \* or "form" (the form page is rendered)
  requests,                \* approve requests in progress, per worker: position in
                           \* article_approve and the locals of the call
  api_clients,             \* ApiClient table, per api_key: user, is_active, last_used_at
  clock,                   \* what timezone.now() returns at the API gateway
  auth,                    \* what the latest ApiKeyAuthentication.authenticate call did
  slug_rows,               \* Article table in SlugSpec: pk = index, columns title, slug
  saves,                   \* Article.save() calls in progress, per saver
  auth_user,               \* CustomUser table: the stored users
  auth_group,              \* Group table: the names of the stored groups
  user_groups,             \* CustomUser.groups: the pairs <<user, group name>>
  signup,                  \* the SignUpForm.save call in progress or ended last
  api_client_rows,         \* ApiClient table in KeySpec: pk = index, columns
                           \* api_key, is_active, last_used_at
  client_saved,            \* what the latest ApiClient.save call did
  created_at,              \* Article.created_at in FeedSpec, per pk
  response                 \* the latest feed response

\* the state of the workflow views
workflow ==
  <<articles, subscribed_publishers, subscribed_journalists, group_permissions,
    batches, outbox, outcome>>

\* the state of the API-key gateway
gateway == <<api_clients, clock, auth>>

\* the state of the slug generation
slugging == <<slug_rows, saves>>

\* the state of the sign-up form
identity == <<auth_user, auth_group, user_groups, signup>>

\* the state of the API client registration
registry == <<api_client_rows, client_saved>>

\* the state of the feed composition, next to the tables of the workflow
feeds == <<created_at, response>>

\* the state only SignUpSpec, KeySpec and FeedSpec touch
further == <<identity, registry, feeds>>

\* the state the atomic views of Spec never touch
elsewhere == <<requests, gateway, slugging, further>>

vars ==
  <<articles, subscribed_publishers, subscribed_journalists, group_permissions,
    batches, outbox, outcome, elsewhere>>

ArticleIds == 1..MaxArticles
pks == DOMAIN articles

\* ApiClient rows by their api_key (unique), and the user each is linked to
ApiKeys == {"k1", "k2"}

linked == [k \in ApiKeys |-> IF k = "k1" THEN "r1" ELSE "e1"]

\* what a request can carry as X-API-Key header or api_key parameter: nothing,
\* the key of a client, or a key no client has
Presented == ApiKeys \cup {"", "kx"}

\* before any authenticate call. ret is what authenticate returned or raised:
\* "None", "user" (the tuple (client.user, client)), "AuthenticationFailed" or
\* "DatabaseError"; queried says whether ApiClient.objects.get ran
unauthenticated ==
  [ret |-> "init", user |-> None, client |-> "", code |-> "", queried |-> FALSE]

\* the processes that call Article.save() in SlugSpec
Savers == {"s1", "s2"}

\* a title or a slug is the sequence of its characters
HelloWorld == <<"H", "e", "l", "l", "o", " ", "W", "o", "r", "l", "d">>

\* titles of articles: "Hello World", "Hello World 1", "!!" and
\* "- Hello -World!_"
Titles ==
  {HelloWorld,
   HelloWorld \o <<" ", "1">>,
   <<"!", "!">>,
   <<"-", " ">> \o SubSeq(HelloWorld, 1, 6) \o <<"-">> \o SubSeq(HelloWorld, 7, 11)
     \o <<"!", "_">>}

\* slugs a caller sets itself: none (blank=True) or "hello-world-1"
GivenSlugs ==
  {<<>>, <<"h", "e", "l", "l", "o", "-", "w", "o", "r", "l", "d", "-", "1">>}

\* a saver between two save() calls. pc is the position in Article.save():
\* "idle", "probe" (before an exists() query of the while loop) or "write"
\* (before super().save()); pk is 0 for an instance without a row yet;
\* undisturbed says that no other save has written since this one began;
\* result is how the latest call ended ("saved" or "IntegrityError")
resting ==
  [pc |-> "idle", pk |-> 0, title |-> <<>>, given |-> <<>>, slug |-> <<>>,
   base_slug |-> <<>>, counter |-> 1, undisturbed |-> TRUE, result |-> ""]

\* no SignUpForm.save call yet. pc is the position in save(): "idle",
\* "user_save" (before user.save()), "get_or_create", "add" (before
\* user.groups.add) or "remove" (in the loop over other_roles); other_roles
\* holds the names the loop has not visited yet; result is how the latest call
\* ended: "returned", "unsaved" (commit=False) or "raised"
no_form ==
  [pc |-> "idle", user |-> None, role |-> "", other_roles |-> {}, result |-> "none"]

\* no ApiClient.save call yet. pk is the row the call wrote (0 when it wrote
\* none), given the api_key the instance came with, created whether the
\* instance had no pk, result "saved" or "ValidationError"
no_save == [pk |-> 0, given |-> "", created |-> FALSE, result |-> "none"]

\* no feed request yet. results is the sequence of pks the view returned
no_feed == [view |-> "", user |-> Anonymous, results |-> <<>>]

\* the server's workers, each serving one approve request at a time
Workers == 1..MaxWorkers

\* an Article instance before any row is loaded into it
blank ==
  [status |-> "draft", publisher |-> None, author |-> None, published_at |-> NULL,
   approved_by |-> None, approved_at |-> NULL, notifications_sent |-> FALSE]

\* a worker that has not taken its request yet. pc is the position in
\* article_approve: "idle", "save" (before the UPDATE of save()), "dispatch"
\* (in the receiver, before the dispatch block), "flag" (before the UPDATE of
\* notifications_sent) or "done"; loaded is the row as get_object_or_404 read
\* it, article the instance the request works on, mail what became of its
\* send_mass_mail call ("none" when it made none, "sent", "raised")
idle ==
  [pc |-> "idle", user |-> Anonymous, pk |-> 0, new_status |-> "", loaded |-> blank,
   article |-> blank, mail |-> "none", response |-> ""]

\* ----------------------------------------------------------------- roles
is_reader(u) == u \in Users /\ "Reader" \in groups[u]

is_journalist(u) == u \in Users /\ "Journalist" \in groups[u]

is_editor(u) == u \in Users /\ "Editor" \in groups[u]

\* ModelBackend.has_perm through the user's groups
has_perm(u, perm) ==
  u \in Users /\ \E g \in groups[u] : perm \in group_permissions[g]

\* reverse accessors of the two many-to-many relations
subscribed_readers(p) == {u \in Users : p \in subscribed_publishers[u]}

journalist_followers(j) == {u \in Users : j \in subscribed_journalists[u]}

\* ------------------------------------------------------- publish + receiver
\* publish() storing the intermediate status of the documented workflow
publish_as_approved(self, approved_by, now) ==
  IF self.status = "published"
  THEN [instance |-> self, saved |-> FALSE]
  ELSE LET marked == [self EXCEPT !.status = "approved", !.published_at = now]
       IN IF approved_by # None /\ is_editor(approved_by)
          THEN [instance |-> [marked EXCEPT !.approved_by = approved_by,
                                            !.approved_at = now,
                                            !.notifications_sent = FALSE],
                saved |-> TRUE]
          ELSE [instance |-> marked, saved |-> FALSE]

\* publish() leaving approved_at as it is
publish_without_approved_at(self, approved_by, now) ==
  IF self.status = "published"
  THEN [instance |-> self, saved |-> FALSE]
  ELSE LET marked == [self EXCEPT !.status = "published", !.published_at = now]
       IN IF approved_by # None /\ is_editor(approved_by)
          THEN [instance |-> [marked EXCEPT !.approved_by = approved_by,
                                            !.notifications_sent = FALSE],
                saved |-> TRUE]
          ELSE [instance |-> marked, saved |-> FALSE]

\* the latest timestamp stored on any article (NULL when there is none)
Latest ==
  LET stamps == {NULL} \cup {articles[pk].published_at : pk \in pks}
                       \cup {articles[pk].approved_at : pk \in pks}
  IN CHOOSE m \in stamps : \A s \in stamps : s <= m

\* timezone.now() is monotone: no earlier than any timestamp already stored.
\* Only the order of timestamps is observable, so the clock either reads the
\* latest stored instant again or the instant after it.
Clock == {t \in {Latest, Latest + 1} : t > NULL}

\* Article.publish(approved_by), with now the value timezone.now() returns
\* during the request: the in-memory instance it leaves behind and whether it
\* called self.save() (the call sits inside the editor branch)
publish(self, approved_by, now) ==
  IF self.status = "published"
  THEN [instance |-> self, saved |-> FALSE]
  ELSE LET marked == [self EXCEPT !.status = "published", !.published_at = now]
       IN IF approved_by # None /\ is_editor(approved_by)
          THEN [instance |-> [marked EXCEPT !.approved_by = approved_by,
                                            !.approved_at = now,
                                            !.notifications_sent = FALSE],
                saved |-> TRUE]
          ELSE [instance |-> marked, saved |-> FALSE]

\* the recipients without the author's followers
recipients_of_publisher_only(instance) ==
  IF instance.publisher # None THEN subscribed_readers(instance.publisher) ELSE {}

\* recipients = set(); update(publisher.subscribed_readers); update(author.journalist_followers)
recipients(instance) ==
  LET of_publisher == IF instance.publisher # None
                      THEN subscribed_readers(instance.publisher) ELSE {}
      of_author == IF instance.author # None /\ is_journalist(instance.author)
                   THEN journalist_followers(instance.author) ELSE {}
  IN of_publisher \cup of_author

\* emails = [(subject, message, from, [u.email]) for u in recipients if u.email]
emails(to) == [u \in {r \in to : email[r] # ""} |-> 1]

\* the receiver without the notifications_sent test in its guard
notify_without_flag_guard(instance, created) ==
  IF created \/ instance.status # "published"
  THEN [row |-> instance, dispatched |-> FALSE, mail |-> EmptyBag]
  ELSE [row |-> [instance EXCEPT !.notifications_sent = TRUE],
        dispatched |-> TRUE,
        mail |-> IF recipients(instance) # {} /\ EMAIL_HOST
                 THEN emails(recipients(instance)) ELSE EmptyBag]

\* post_save receiver: the row it leaves stored, whether it went past the
\* guard into the dispatch block, and the messages handed to send_mass_mail
notify_and_tweet_on_publish(instance, created) ==
  IF created \/ instance.status # "published" \/ instance.notifications_sent
  THEN [row |-> instance, dispatched |-> FALSE, mail |-> EmptyBag]
  ELSE [row |-> [instance EXCEPT !.notifications_sent = TRUE],
        dispatched |-> TRUE,
        mail |-> IF recipients(instance) # {} /\ EMAIL_HOST
                 THEN emails(recipients(instance)) ELSE EmptyBag]

\* Article.save(): write the row, then run the post_save receiver
save(pk, instance, created) ==
  LET r == notify_and_tweet_on_publish(instance, created)
  IN /\ articles' = IF created THEN Append(articles, r.row)
                    ELSE [articles EXCEPT ![pk] = r.row]
     /\ batches' = IF r.dispatched THEN [batches EXCEPT ![pk] = @ + 1] ELSE batches
     /\ outbox' = IF r.dispatched THEN r.mail ELSE outbox

\* a request that only answers
Respond(o) ==
  /\ outcome' = o
  /\ UNCHANGED <<articles, subscribed_publishers, subscribed_journalists,
                 group_permissions, batches, outbox, elsewhere>>

\* ------------------------------------------------------------------ views
\* ModelChoiceField of ArticleForm.publisher (blank=True): the empty choice is None
to_python(value) == IF value = "" THEN None ELSE value

\* ModelForm.is_valid() of ArticleApprovalForm: status must be a choice
ArticleApprovalForm_is_valid(new_status) == new_status \in STATUS_CHOICES

\* the terminal test with 'rejected' left out
is_terminal_published_only(article) == article.status = "published"

\* article.status in ['published', 'rejected']
is_terminal(article) == article.status \in {"published", "rejected"}

article_approve(user, pk, method, new_status) ==
  IF user = Anonymous THEN Respond("login")
  ELSE IF ~has_perm(user, "change_article") THEN Respond("forbidden")
  ELSE IF pk \notin pks THEN Respond("not_found")
  ELSE IF is_terminal(articles[pk]) THEN Respond("warning")
  ELSE IF method = "POST" /\ ArticleApprovalForm_is_valid(new_status)
  THEN LET article == [articles[pk] EXCEPT !.status = new_status]
       IN IF new_status = "approved"
          THEN \E now \in Clock :
                 LET p == publish(article, user, now)
                 IN /\ IF p.saved THEN save(pk, p.instance, FALSE)
                       ELSE UNCHANGED <<articles, batches, outbox>>
                    /\ outcome' = "success"
                    /\ UNCHANGED <<subscribed_publishers, subscribed_journalists,
                                   group_permissions, elsewhere>>
          ELSE /\ save(pk, article, FALSE)
               /\ outcome' = "info"
               /\ UNCHANGED <<subscribed_publishers, subscribed_journalists,
                              group_permissions, elsewhere>>
  ELSE Respond("form")

\* article_create behind login_required alone
article_create_by_anyone(user, method, publisher) ==
  IF user = Anonymous THEN Respond("login")
  ELSE IF method = "POST"
  THEN /\ Len(articles) < MaxArticles
       /\ save(Len(articles) + 1,
               [status |-> "pending", publisher |-> to_python(publisher), author |-> user,
                published_at |-> NULL, approved_by |-> None, approved_at |-> NULL,
                notifications_sent |-> FALSE],
               TRUE)
       /\ outcome' = "success"
       /\ UNCHANGED <<subscribed_publishers, subscribed_journalists,
                      group_permissions, elsewhere>>
  ELSE Respond("form")

\* views.article_create behind journalist_required: the form's instance gets
\* the author and the status pending, and is saved
article_create(user, method, publisher) ==
  IF user = Anonymous THEN Respond("login")
  ELSE IF ~is_journalist(user) THEN Respond("error")
  ELSE IF method = "POST"
  THEN /\ Len(articles) < MaxArticles
       /\ save(Len(articles) + 1,
               [status |-> "pending", publisher |-> to_python(publisher), author |-> user,
                published_at |-> NULL, approved_by |-> None, approved_at |-> NULL,
                notifications_sent |-> FALSE],
               TRUE)
       /\ outcome' = "success"
       /\ UNCHANGED <<subscribed_publishers, subscribed_journalists,
                      group_permissions, elsewhere>>
  ELSE Respond("form")

article_update(user, pk, method, publisher) ==
  IF user = Anonymous THEN Respond("login")
  ELSE IF pk \notin pks THEN Respond("not_found")
  ELSE IF ~((articles[pk].author = user /\ is_journalist(user)) \/ is_editor(user))
  THEN Respond("error")
  ELSE IF method = "POST"
  THEN /\ save(pk, [articles[pk] EXCEPT !.publisher = to_python(publisher)], FALSE)
       /\ outcome' = "success"
       /\ UNCHANGED <<subscribed_publishers, subscribed_journalists,
                      group_permissions, elsewhere>>
  ELSE Respond("form")

\* SubscribePublisherView.post that only ever subscribes
SubscribePublisherView_post_add_only(user, pk) ==
  IF user = Anonymous THEN Respond("login")
  ELSE IF ~("Reader" \in groups[user]) THEN Respond("error")
  ELSE /\ subscribed_publishers' =
            [subscribed_publishers EXCEPT ![user] = @ \cup {pk}]
       /\ outcome' = "success"
       /\ UNCHANGED <<articles, subscribed_journalists, group_permissions,
                      batches, outbox, elsewhere>>

\* views.SubscribePublisherView.post behind LoginRequiredMixin, for a
\* publisher that exists
SubscribePublisherView_post(user, pk) ==
  IF user = Anonymous THEN Respond("login")
  ELSE IF ~("Reader" \in groups[user]) THEN Respond("error")
  ELSE /\ subscribed_publishers' =
            [subscribed_publishers EXCEPT
               ![user] = IF pk \in @ THEN @ \ {pk} ELSE @ \cup {pk}]
       /\ outcome' = "success"
       /\ UNCHANGED <<articles, subscribed_journalists, group_permissions,
                      batches, outbox, elsewhere>>

follow_journalist(user, username) ==
  IF user = Anonymous THEN Respond("login")
  ELSE IF ~("Journalist" \in groups[username]) THEN Respond("not_found")
  ELSE IF user = username THEN Respond("error")
  ELSE /\ subscribed_journalists' =
            [subscribed_journalists EXCEPT ![user] = @ \cup {username}]
       /\ outcome' = "success"
       /\ UNCHANGED <<articles, subscribed_publishers, group_permissions,
                      batches, outbox, elsewhere>>

unfollow_journalist(user, username) ==
  IF user = Anonymous THEN Respond("login")
  ELSE IF ~("Journalist" \in groups[username]) THEN Respond("not_found")
  ELSE /\ subscribed_journalists' =
            [subscribed_journalists EXCEPT ![user] = @ \ {username}]
       /\ outcome' = "success"
       /\ UNCHANGED <<articles, subscribed_publishers, group_permissions,
                      batches, outbox, elsewhere>>

\* manage.py create_initial_groups
handle ==
  /\ group_permissions' =
       [g \in {"Reader", "Journalist", "Editor"} |->
          IF g = "Reader" THEN {"view_article"}
          ELSE {"view_article", "add_article", "change_article", "delete_article"}]
  /\ UNCHANGED <<articles, subscribed_publishers, subscribed_journalists,
                 batches, outbox, outcome, elsewhere>>

\* migration 0003 gives Editor change_article when the permission row already
\* exists, and nothing when it does not (fresh database)
add_editor_permissions ==
  {[g \in {"Reader", "Journalist", "Editor"} |->
      IF g = "Editor" THEN e ELSE {}] : e \in {{}, {"change_article"}}}

\* request.POST values of one form field: a GET carries none, a POST one of
\* the field's choices or the empty choice
FormData(method, choices) ==
  IF method = "GET" THEN {""} ELSE choices \cup {""}

Init ==
  /\ articles = <<>>
  /\ subscribed_publishers = [u \in Users |-> {}]
  /\ subscribed_journalists = [u \in Users |-> {}]
  /\ group_permissions \in add_editor_permissions
  /\ batches = [a \in ArticleIds |-> 0]
  /\ outbox = EmptyBag
  /\ outcome = "init"
  /\ requests = [w \in Workers |-> idle]
  /\ api_clients = [k \in ApiKeys |-> [user |-> linked[k], is_active |-> TRUE,
                                        last_used_at |-> NULL]]
  /\ clock = 1
  /\ auth = unauthenticated
  /\ slug_rows = <<>>
  /\ saves = [s \in Savers |-> resting]
  /\ auth_user = {}
  /\ auth_group = {}
  /\ user_groups = {}
  /\ signup = no_form
  /\ api_client_rows = <<>>
  /\ client_saved = no_save
  /\ created_at = <<>>
  /\ response = no_feed

Next ==
  \/ \E user \in Actors, pk \in ArticleIds, method \in Methods :
       \E new_status \in FormData(method, STATUS_CHOICES) :
         article_approve(user, pk, method, new_status)
  \/ \E user \in Actors, method \in Methods :
       \E publisher \in FormData(method, Publishers) :
         article_create(user, method, publisher)
  \/ \E user \in Actors, pk \in ArticleIds, method \in Methods :
       \E publisher \in FormData(method, Publishers) :
         article_update(user, pk, method, publisher)
  \/ \E user \in Actors, pk \in Publishers : SubscribePublisherView_post(user, pk)
  \/ \E user \in Actors, username \in Users : follow_journalist(user, username)
  \/ \E user \in Actors, username \in Users : unfollow_journalist(user, username)
  \/ handle

Spec == Init /\ [][Next]_vars

\* ------------------------------------------- approve requests, step by step
\* article_approve as the server runs it when several workers serve requests
\* at once: each database statement (the SELECT of get_object_or_404, the
\* UPDATE of save(), the UPDATE of save(update_fields=...)) and the hand-over
\* to the mail transport is one step; what a request does between two of them
\* touches only its own locals.  Django runs in autocommit mode, and post_save
\* is sent after the UPDATE of save() has been executed.

\* the transport fails and nothing catches it: the request ends as a server error
approve_dispatch_uncaught(w, raises) ==
  LET r == requests[w]
      to == recipients(r.article)
      called == to # {} /\ EMAIL_HOST
  IN /\ r.pc = "dispatch"
     /\ raises => called
     /\ batches' = [batches EXCEPT ![r.pk] = @ + 1]
     /\ outbox' = IF called /\ ~raises THEN emails(to) ELSE EmptyBag
     /\ requests' = [requests EXCEPT
                       ![w] = IF raises
                              THEN [r EXCEPT !.pc = "done", !.mail = "raised",
                                             !.response = "server_error"]
                              ELSE [r EXCEPT !.pc = "flag",
                                             !.mail = IF called THEN "sent" ELSE "none"]]
     /\ UNCHANGED <<articles, subscribed_publishers, subscribed_journalists,
                    group_permissions, outcome, gateway, slugging, further>>

\* signals.py 16-33: the dispatch block of the receiver. send_mass_mail is
\* called when there are recipients and a mail host; raises says whether the
\* transport raises, which the except clause catches and prints.
approve_dispatch(w, raises) ==
  LET r == requests[w]
      to == recipients(r.article)
      called == to # {} /\ EMAIL_HOST
  IN /\ r.pc = "dispatch"
     /\ raises => called
     /\ batches' = [batches EXCEPT ![r.pk] = @ + 1]
     /\ outbox' = IF called /\ ~raises THEN emails(to) ELSE EmptyBag
     /\ requests' = [requests EXCEPT
                       ![w] = [r EXCEPT !.pc = "flag",
                                        !.mail = IF ~called THEN "none"
                                                 ELSE IF raises THEN "raised" ELSE "sent"]]
     /\ UNCHANGED <<articles, subscribed_publishers, subscribed_journalists,
                    group_permissions, outcome, gateway, slugging, further>>

\* a request that is turned away or answered with the form page: response o,
\* nothing loaded into an instance, nothing written
approve_respond(w, o) ==
  /\ requests' = [requests EXCEPT ![w] = [idle EXCEPT !.pc = "done", !.response = o]]
  /\ UNCHANGED <<articles, subscribed_publishers, subscribed_journalists,
                 group_permissions, batches, outbox, outcome, gateway, slugging, further>>

\* views.py 37-61: the decorators, get_object_or_404, the terminal test, the
\* form and, for an approval, publish() up to its self.save()
approve_begin(w, user, pk, method, new_status) ==
  /\ requests[w].pc = "idle"
  /\ IF user = Anonymous THEN approve_respond(w, "login")
     ELSE IF ~has_perm(user, "change_article")
     THEN approve_respond(w, "forbidden")
     ELSE IF pk \notin pks THEN approve_respond(w, "not_found")
     ELSE IF is_terminal(articles[pk])
     THEN approve_respond(w, "warning")
     ELSE IF method = "POST" /\ ArticleApprovalForm_is_valid(new_status)
     THEN LET article == [articles[pk] EXCEPT !.status = new_status]
              begun == [idle EXCEPT !.user = user, !.pk = pk, !.new_status = new_status,
                                    !.loaded = articles[pk]]
          IN IF new_status = "approved"
             THEN \E now \in Clock :
                    LET p == publish(article, user, now)
                    IN /\ requests' =
                            [requests EXCEPT
                               ![w] = [begun EXCEPT
                                         !.pc = IF p.saved THEN "save" ELSE "done",
                                         !.article = p.instance,
                                         !.response = "success"]]
                       /\ UNCHANGED <<articles, subscribed_publishers,
                                      subscribed_journalists, group_permissions,
                                      batches, outbox, outcome, gateway, slugging, further>>
             ELSE /\ requests' = [requests EXCEPT
                                    ![w] = [begun EXCEPT !.pc = "save",
                                                         !.article = article,
                                                         !.response = "info"]]
                  /\ UNCHANGED <<articles, subscribed_publishers,
                                 subscribed_journalists, group_permissions,
                                 batches, outbox, outcome, gateway, slugging, further>>
     ELSE approve_respond(w, "form")

\* the save that refuses to overwrite a row another request already published
approve_save_if_unpublished(w) ==
  LET r == requests[w]
  IN /\ r.pc = "save"
     /\ IF articles[r.pk].status = "published"
        THEN /\ requests' = [requests EXCEPT ![w] = [r EXCEPT !.pc = "done"]]
             /\ UNCHANGED articles
        ELSE /\ articles' = [articles EXCEPT ![r.pk] = r.article]
             /\ requests' =
                  [requests EXCEPT
                     ![w] = [r EXCEPT
                               !.pc = IF r.article.status # "published"
                                         \/ r.article.notifications_sent
                                      THEN "done" ELSE "dispatch"]]
     /\ UNCHANGED <<subscribed_publishers, subscribed_journalists, group_permissions,
                    batches, outbox, outcome, gateway, slugging, further>>

\* models.py 254 and signals.py 12: save() writes every column of the row
\* from the request's instance, then the receiver tests its guard on that
\* same instance (created is false for an existing row)
approve_save(w) ==
  LET r == requests[w]
  IN /\ r.pc = "save"
     /\ articles' = [articles EXCEPT ![r.pk] = r.article]
     /\ requests' =
          [requests EXCEPT
             ![w] = [r EXCEPT
                       !.pc = IF r.article.status # "published"
                                 \/ r.article.notifications_sent
                              THEN "done" ELSE "dispatch"]]
     /\ UNCHANGED <<subscribed_publishers, subscribed_journalists, group_permissions,
                    batches, outbox, outcome, gateway, slugging, further>>

\* signals.py 36-37: the flag is set on the instance and that one column is
\* written; the post_save this save sends finds the flag set and returns
approve_flag(w) ==
  LET r == requests[w]
  IN /\ r.pc = "flag"
     /\ articles' = [articles EXCEPT ![r.pk].notifications_sent = TRUE]
     /\ requests' = [requests EXCEPT
                       ![w] = [r EXCEPT !.pc = "done",
                                        !.article.notifications_sent = TRUE]]
     /\ UNCHANGED <<subscribed_publishers, subscribed_journalists, group_permissions,
                    batches, outbox, outcome, gateway, slugging, further>>

\* an article a journalist has submitted (article_create stores it pending),
\* a reader who subscribed or followed before, and the groups as the migration
\* left them (the management command may run at any time)
ApproveInit ==
  /\ \E publisher \in Publishers \cup {None} :
       articles = <<[status |-> "pending", publisher |-> publisher, author |-> "j1",
                     published_at |-> NULL, approved_by |-> None, approved_at |-> NULL,
                     notifications_sent |-> FALSE]>>
  /\ \E P \in SUBSET Publishers :
       subscribed_publishers = [u \in Users |-> IF is_reader(u) THEN P ELSE {}]
  /\ \E J \in SUBSET {"j1"} :
       subscribed_journalists = [u \in Users |-> IF is_reader(u) THEN J ELSE {}]
  /\ group_permissions \in add_editor_permissions
  /\ batches = [a \in ArticleIds |-> 0]
  /\ outbox = EmptyBag
  /\ outcome = "init"
  /\ requests = [w \in Workers |-> idle]
  /\ api_clients = [k \in ApiKeys |-> [user |-> linked[k], is_active |-> TRUE,
                                        last_used_at |-> NULL]]
  /\ clock = 1
  /\ auth = unauthenticated
  /\ slug_rows = <<>>
  /\ saves = [s \in Savers |-> resting]
  /\ auth_user = {}
  /\ auth_group = {}
  /\ user_groups = {}
  /\ signup = no_form
  /\ api_client_rows = <<>>
  /\ client_saved = no_save
  /\ created_at = <<>>
  /\ response = no_feed

ApproveNext ==
  \/ \E w \in Workers, user \in Actors, pk \in ArticleIds, method \in Methods :
       \E new_status \in FormData(method, STATUS_CHOICES) :
         approve_begin(w, user, pk, method, new_status)
  \/ \E w \in Workers : approve_save(w)
  \/ \E w \in Workers, raises \in BOOLEAN : approve_dispatch(w, raises)
  \/ \E w \in Workers : approve_flag(w)
  \/ handle

ApproveSpec == ApproveInit /\ [][ApproveNext]_vars

\* ------------------------------------------------------- API-key gateway
\* authenticate() rejecting a request that carries no key
authenticate_key_required(header, query, store_fails) ==
  LET api_key == IF header # "" THEN header ELSE query
  IN /\ store_fails => (api_key \in ApiKeys /\ api_clients[api_key].is_active)
     /\ IF api_key \in ApiKeys /\ api_clients[api_key].is_active
        THEN IF store_fails
             THEN /\ auth' = [unauthenticated EXCEPT !.ret = "DatabaseError",
                                                     !.queried = TRUE]
                  /\ UNCHANGED api_clients
             ELSE /\ api_clients' = [api_clients EXCEPT ![api_key].last_used_at = clock]
                  /\ auth' = [ret |-> "user", user |-> api_clients[api_key].user,
                              client |-> api_key, code |-> "", queried |-> TRUE]
        ELSE /\ auth' = [unauthenticated EXCEPT !.ret = "AuthenticationFailed",
                                                !.code = "invalid_api_key",
                                                !.queried = api_key # ""]
             /\ UNCHANGED api_clients
     /\ UNCHANGED <<clock, workflow, requests, slugging, further>>

\* authenticate() looking the key up without is_active=True
authenticate_any_client(header, query, store_fails) ==
  LET api_key == IF header # "" THEN header ELSE query
  IN /\ store_fails => api_key \in ApiKeys
     /\ IF api_key = ""
        THEN /\ auth' = [unauthenticated EXCEPT !.ret = "None"]
             /\ UNCHANGED api_clients
        ELSE IF api_key \in ApiKeys
        THEN IF store_fails
             THEN /\ auth' = [unauthenticated EXCEPT !.ret = "DatabaseError",
                                                     !.queried = TRUE]
                  /\ UNCHANGED api_clients
             ELSE /\ api_clients' = [api_clients EXCEPT ![api_key].last_used_at = clock]
                  /\ auth' = [ret |-> "user", user |-> api_clients[api_key].user,
                              client |-> api_key, code |-> "", queried |-> TRUE]
        ELSE /\ auth' = [unauthenticated EXCEPT !.ret = "AuthenticationFailed",
                                                !.code = "invalid_api_key",
                                                !.queried = TRUE]
             /\ UNCHANGED api_clients
     /\ UNCHANGED <<clock, workflow, requests, slugging, further>>

\* authenticate() that leaves last_used_at as it is
authenticate_without_touch(header, query, store_fails) ==
  LET api_key == IF header # "" THEN header ELSE query
  IN /\ store_fails => (api_key \in ApiKeys /\ api_clients[api_key].is_active)
     /\ IF api_key = ""
        THEN auth' = [unauthenticated EXCEPT !.ret = "None"]
        ELSE IF api_key \in ApiKeys /\ api_clients[api_key].is_active
        THEN IF store_fails
             THEN auth' = [unauthenticated EXCEPT !.ret = "DatabaseError",
                                                  !.queried = TRUE]
             ELSE auth' = [ret |-> "user", user |-> api_clients[api_key].user,
                           client |-> api_key, code |-> "", queried |-> TRUE]
        ELSE auth' = [unauthenticated EXCEPT !.ret = "AuthenticationFailed",
                                             !.code = "invalid_api_key",
                                             !.queried = TRUE]
     /\ UNCHANGED <<api_clients, clock, workflow, requests, slugging, further>>

\* ApiKeyAuthentication.authenticate: the key is the header or, when that is
\* missing or empty, the query parameter. store_fails says whether the UPDATE
\* of client.save(update_fields=['last_used_at']) raises a database error,
\* which the except clause (ApiClient.DoesNotExist only) does not catch.
authenticate(header, query, store_fails) ==
  LET api_key == IF header # "" THEN header ELSE query
  IN /\ store_fails => (api_key \in ApiKeys /\ api_clients[api_key].is_active)
     /\ IF api_key = ""
        THEN /\ auth' = [unauthenticated EXCEPT !.ret = "None"]
             /\ UNCHANGED api_clients
        ELSE IF api_key \in ApiKeys /\ api_clients[api_key].is_active
        THEN IF store_fails
             THEN /\ auth' = [unauthenticated EXCEPT !.ret = "DatabaseError",
                                                     !.queried = TRUE]
                  /\ UNCHANGED api_clients
             ELSE /\ api_clients' = [api_clients EXCEPT ![api_key].last_used_at = clock]
                  /\ auth' = [ret |-> "user", user |-> api_clients[api_key].user,
                              client |-> api_key, code |-> "", queried |-> TRUE]
        ELSE /\ auth' = [unauthenticated EXCEPT !.ret = "AuthenticationFailed",
                                                !.code = "invalid_api_key",
                                                !.queried = TRUE]
             /\ UNCHANGED api_clients
     /\ UNCHANGED <<clock, workflow, requests, slugging, further>>

\* an administrator (or the test suite) sets a client's is_active and saves it
set_is_active(api_key, value) ==
  /\ api_clients[api_key].is_active # value
  /\ api_clients' = [api_clients EXCEPT ![api_key].is_active = value]
  /\ UNCHANGED <<clock, auth, workflow, requests, slugging, further>>

\* time passes
tick ==
  /\ clock < MaxClock
  /\ clock' = clock + 1
  /\ UNCHANGED <<api_clients, auth, workflow, requests, slugging, further>>

ApiInit ==
  /\ api_clients = [k \in ApiKeys |-> [user |-> linked[k], is_active |-> TRUE,
                                       last_used_at |-> NULL]]
  /\ clock = 1
  /\ auth = unauthenticated
  /\ slug_rows = <<>>
  /\ saves = [s \in Savers |-> resting]
  /\ auth_user = {}
  /\ auth_group = {}
  /\ user_groups = {}
  /\ signup = no_form
  /\ api_client_rows = <<>>
  /\ client_saved = no_save
  /\ created_at = <<>>
  /\ response = no_feed
  /\ articles = <<>>
  /\ subscribed_publishers = [u \in Users |-> {}]
  /\ subscribed_journalists = [u \in Users |-> {}]
  /\ group_permissions \in add_editor_permissions
  /\ batches = [a \in ArticleIds |-> 0]
  /\ outbox = EmptyBag
  /\ outcome = "init"
  /\ requests = [w \in Workers |-> idle]

ApiNext ==
  \/ \E header \in Presented, query \in Presented, store_fails \in BOOLEAN :
       authenticate(header, query, store_fails)
  \/ \E api_key \in ApiKeys, value \in BOOLEAN : set_is_active(api_key, value)
  \/ tick

ApiSpec == ApiInit /\ [][ApiNext]_vars

\* -------------------------------------------------------- slug generation
\* str.lower() on the characters that occur in Titles
lower(c) == CASE c = "H" -> "h" [] c = "W" -> "w" [] OTHER -> c

\* [\w\s-]: the characters the first re.sub of slugify keeps
kept(c) ==
  c \in {"h", "e", "l", "o", "w", "r", "d", "0", "1", "2", "3", "4", "5", "6", "7",
         "8", "9", "_", " ", "-"}

\* re.sub(r"[-\s]+", "-", value)
RECURSIVE collapse(_)
collapse(value) ==
  IF value = <<>> THEN <<>>
  ELSE IF Head(value) \in {"-", " "}
  THEN IF Tail(value) # <<>> /\ Head(Tail(value)) \in {"-", " "}
       THEN collapse(Tail(value))
       ELSE <<"-">> \o collapse(Tail(value))
  ELSE <<Head(value)>> \o collapse(Tail(value))

\* value.strip("-_")
RECURSIVE strip(_)
strip(value) ==
  IF value = <<>> THEN <<>>
  ELSE IF Head(value) \in {"-", "_"} THEN strip(Tail(value))
  ELSE IF value[Len(value)] \in {"-", "_"} THEN strip(SubSeq(value, 1, Len(value) - 1))
  ELSE value

\* django.utils.text.slugify: lower-case, drop what is not a word character,
\* white space or hyphen, turn runs of hyphens and spaces into one hyphen,
\* strip hyphens and underscores at both ends
slugify(value) ==
  strip(collapse(SelectSeq([i \in DOMAIN value |-> lower(value[i])], kept)))

\* the decimal digits
digits == <<"0", "1", "2", "3", "4", "5", "6", "7", "8", "9">>

\* str(counter) of the f-string
RECURSIVE str(_)
str(n) ==
  IF n < 10 THEN <<digits[n + 1]>>
  ELSE str(n \div 10) \o <<digits[(n % 10) + 1]>>

\* Article.objects.filter(slug=slug).exclude(pk=pk).exists()
exists(slug, pk) ==
  \E i \in DOMAIN slug_rows : i # pk /\ slug_rows[i].slug = slug

\* models.py 246-249: save() is called on an instance with this pk, title and
\* slug: a new instance (pk 0, not stored yet) or one loaded from its row and
\* saved again; an empty slug with a title starts the probe
save_begin(s, pk, title, slug) ==
  /\ saves[s].pc = "idle"
  /\ \/ /\ pk \in DOMAIN slug_rows
        /\ title = slug_rows[pk].title
        /\ slug = slug_rows[pk].slug
     \/ /\ pk = 0
        /\ Len(slug_rows)
             + Cardinality({t \in Savers : saves[t].pc # "idle" /\ saves[t].pk = 0})
           < MaxRows
  /\ saves' = [saves EXCEPT
                 ![s] = IF slug = <<>> /\ title # <<>>
                        THEN [resting EXCEPT !.pc = "probe", !.pk = pk, !.title = title,
                                             !.given = slug,
                                             !.base_slug = slugify(title),
                                             !.slug = slugify(title)]
                        ELSE [resting EXCEPT !.pc = "write", !.pk = pk, !.title = title,
                                             !.given = slug, !.slug = slug]]
  /\ UNCHANGED <<slug_rows, workflow, requests, gateway, further>>

\* the probe whose first suffix is -2
save_probe_from_two(s) ==
  LET r == saves[s]
  IN /\ r.pc = "probe"
     /\ saves' = [saves EXCEPT
                    ![s] = IF exists(r.slug, r.pk)
                           THEN [r EXCEPT
                                   !.slug = r.base_slug \o <<"-">> \o str(r.counter + 1),
                                   !.counter = r.counter + 1]
                           ELSE [r EXCEPT !.pc = "write"]]
     /\ UNCHANGED <<slug_rows, workflow, requests, gateway, further>>

\* models.py 250-253: one test of the while condition, which is one query,
\* and the loop body when it holds
save_probe(s) ==
  LET r == saves[s]
  IN /\ r.pc = "probe"
     /\ saves' = [saves EXCEPT
                    ![s] = IF exists(r.slug, r.pk)
                           THEN [r EXCEPT !.slug = r.base_slug \o <<"-">> \o str(r.counter),
                                          !.counter = r.counter + 1]
                           ELSE [r EXCEPT !.pc = "write"]]
     /\ UNCHANGED <<slug_rows, workflow, requests, gateway, further>>

\* the write without the UNIQUE constraint on slug
save_write_unconstrained(s) ==
  LET r == saves[s]
      row == [title |-> r.title, slug |-> r.slug]
  IN /\ r.pc = "write"
     /\ slug_rows' = IF r.pk = 0 THEN Append(slug_rows, row)
                     ELSE [slug_rows EXCEPT ![r.pk] = row]
     /\ saves' = [t \in Savers |->
                    IF t = s THEN [resting EXCEPT !.result = "saved"]
                    ELSE IF saves[t].pc # "idle" /\ slug_rows' # slug_rows
                    THEN [saves[t] EXCEPT !.undisturbed = FALSE]
                    ELSE saves[t]]
     /\ UNCHANGED <<workflow, requests, gateway, further>>

\* models.py 254 and 172: super().save() is one INSERT or UPDATE, which the
\* database refuses with an IntegrityError when another row has the slug
\* (unique=True)
save_write(s) ==
  LET r == saves[s]
      row == [title |-> r.title, slug |-> r.slug]
  IN /\ r.pc = "write"
     /\ IF exists(r.slug, r.pk)
        THEN /\ saves' = [saves EXCEPT
                            ![s] = [resting EXCEPT !.result = "IntegrityError"]]
             /\ UNCHANGED slug_rows
        ELSE /\ slug_rows' = IF r.pk = 0 THEN Append(slug_rows, row)
                             ELSE [slug_rows EXCEPT ![r.pk] = row]
             /\ saves' = [t \in Savers |->
                            IF t = s THEN [resting EXCEPT !.result = "saved"]
                            ELSE IF saves[t].pc # "idle" /\ slug_rows' # slug_rows
                            THEN [saves[t] EXCEPT !.undisturbed = FALSE]
                            ELSE saves[t]]
     /\ UNCHANGED <<workflow, requests, gateway, further>>

SlugInit ==
  /\ slug_rows = <<>>
  /\ saves = [s \in Savers |-> resting]
  /\ auth_user = {}
  /\ auth_group = {}
  /\ user_groups = {}
  /\ signup = no_form
  /\ api_client_rows = <<>>
  /\ client_saved = no_save
  /\ created_at = <<>>
  /\ response = no_feed
  /\ api_clients = [k \in ApiKeys |-> [user |-> linked[k], is_active |-> TRUE,
                                       last_used_at |-> NULL]]
  /\ clock = 1
  /\ auth = unauthenticated
  /\ articles = <<>>
  /\ subscribed_publishers = [u \in Users |-> {}]
  /\ subscribed_journalists = [u \in Users |-> {}]
  /\ group_permissions = [g \in {"Reader", "Journalist", "Editor"} |-> {}]
  /\ batches = [a \in ArticleIds |-> 0]
  /\ outbox = EmptyBag
  /\ outcome = "init"
  /\ requests = [w \in Workers |-> idle]

SlugNext ==
  \/ \E s \in Savers, title \in Titles, slug \in GivenSlugs :
       save_begin(s, 0, title, slug)
  \/ \E s \in Savers, pk \in DOMAIN slug_rows :
       save_begin(s, pk, slug_rows[pk].title, slug_rows[pk].slug)
  \/ \E s \in Savers : save_probe(s)
  \/ \E s \in Savers : save_write(s)

SlugSpec == SlugInit /\ [][SlugNext]_vars

\* ------------------------------------------------------- sign-up, step by step
\* the three role groups
Roles == {"Reader", "Journalist", "Editor"}

\* SignUpForm.ROLE_CHOICES: the values of the role field
ROLE_CHOICES == {"reader", "journalist", "editor"}

\* str.capitalize() on a value of the role field
capitalize(role) ==
  CASE role = "reader" -> "Reader"
    [] role = "journalist" -> "Journalist"
    [] role = "editor" -> "Editor"

\* the users a SignUpForm is bound to: a new instance or one stored before
Applicants == {"u1", "u2"}

\* everything but the state of the sign-up form
outside_identity == <<workflow, requests, gateway, slugging, registry, feeds>>

\* self.groups.filter(name=name).exists()
in_group(user, name) == <<user, name>> \in user_groups

\* CustomUser.is_reader, is_journalist and is_editor of a stored user
role_flags(user) ==
  [is_reader |-> in_group(user, "Reader"),
   is_journalist |-> in_group(user, "Journalist"),
   is_editor |-> in_group(user, "Editor")]

\* the role groups a user is a member of
role_groups(user) == {name \in Roles : in_group(user, name)}

\* the call ends with an exception: nothing is rolled back, since no
\* transaction is open and every statement before it has committed
signup_raise == signup' = [signup EXCEPT !.pc = "idle", !.result = "raised"]

\* SignUpForm.save(commit): super().save(commit=False) builds the instance and
\* stores nothing; without commit the instance is returned as it is
SignUpForm_save(user, role, commit) ==
  /\ signup.pc = "idle"
  /\ signup' = [pc |-> IF commit THEN "user_save" ELSE "idle", user |-> user,
                role |-> role, other_roles |-> {},
                result |-> IF commit THEN "none" ELSE "unsaved"]
  /\ UNCHANGED <<auth_user, auth_group, user_groups, outside_identity>>

\* user.save(): the INSERT or UPDATE of the user row
SignUpForm_save_user(fails) ==
  /\ signup.pc = "user_save"
  /\ IF fails
     THEN /\ signup_raise
          /\ UNCHANGED auth_user
     ELSE /\ auth_user' = auth_user \cup {signup.user}
          /\ signup' = [signup EXCEPT !.pc = "get_or_create"]
  /\ UNCHANGED <<auth_group, user_groups, outside_identity>>

\* Group.objects.get_or_create(name=group_name)
SignUpForm_save_get_or_create(fails) ==
  /\ signup.pc = "get_or_create"
  /\ IF fails
     THEN /\ signup_raise
          /\ UNCHANGED auth_group
     ELSE /\ auth_group' = auth_group \cup {capitalize(signup.role)}
          /\ signup' = [signup EXCEPT !.pc = "add"]
  /\ UNCHANGED <<auth_user, user_groups, outside_identity>>

\* user.groups.add(group), and other_roles is computed
SignUpForm_save_add(fails) ==
  /\ signup.pc = "add"
  /\ IF fails
     THEN /\ signup_raise
          /\ UNCHANGED user_groups
     ELSE /\ user_groups' = user_groups \cup {<<signup.user, capitalize(signup.role)>>}
          /\ signup' = [signup EXCEPT !.pc = "remove",
                                      !.other_roles = Roles \ {capitalize(signup.role)}]
  /\ UNCHANGED <<auth_user, auth_group, outside_identity>>

\* the loop over other_roles removing no membership
SignUpForm_save_remove_nothing(other_group_name, fails) ==
  /\ signup.pc = "remove"
  /\ other_group_name \in signup.other_roles
  /\ IF fails
     THEN signup_raise
     ELSE LET rest == signup.other_roles \ {other_group_name}
          IN signup' = [signup EXCEPT !.other_roles = rest,
                                      !.pc = IF rest = {} THEN "idle" ELSE "remove",
                                      !.result = IF rest = {} THEN "returned" ELSE @]
  /\ UNCHANGED <<auth_user, auth_group, user_groups, outside_identity>>

\* one pass of the loop over other_roles (a set: the order of the passes is
\* not fixed): Group.objects.get, whose DoesNotExist is passed over, then
\* user.groups.remove; after the last pass save() returns the user
SignUpForm_save_remove(other_group_name, fails) ==
  /\ signup.pc = "remove"
  /\ other_group_name \in signup.other_roles
  /\ IF fails
     THEN /\ signup_raise
          /\ UNCHANGED user_groups
     ELSE LET rest == signup.other_roles \ {other_group_name}
          IN /\ user_groups' = IF other_group_name \in auth_group
                               THEN user_groups \ {<<signup.user, other_group_name>>}
                               ELSE user_groups
             /\ signup' = [signup EXCEPT !.other_roles = rest,
                                         !.pc = IF rest = {} THEN "idle" ELSE "remove",
                                         !.result = IF rest = {} THEN "returned" ELSE @]
  /\ UNCHANGED <<auth_user, auth_group, outside_identity>>

\* no user yet; the role groups exist (create_initial_groups has run) or not
SignUpInit ==
  /\ auth_user = {}
  /\ auth_group \in {{}, Roles}
  /\ user_groups = {}
  /\ signup = no_form
  /\ api_client_rows = <<>>
  /\ client_saved = no_save
  /\ created_at = <<>>
  /\ response = no_feed
  /\ slug_rows = <<>>
  /\ saves = [s \in Savers |-> resting]
  /\ api_clients = [k \in ApiKeys |-> [user |-> linked[k], is_active |-> TRUE,
                                       last_used_at |-> NULL]]
  /\ clock = 1
  /\ auth = unauthenticated
  /\ articles = <<>>
  /\ subscribed_publishers = [u \in Users |-> {}]
  /\ subscribed_journalists = [u \in Users |-> {}]
  /\ group_permissions = [g \in {"Reader", "Journalist", "Editor"} |-> {}]
  /\ batches = [a \in ArticleIds |-> 0]
  /\ outbox = EmptyBag
  /\ outcome = "init"
  /\ requests = [w \in Workers |-> idle]

SignUpNext ==
  \/ \E user \in Applicants, role \in ROLE_CHOICES, commit \in BOOLEAN :
       SignUpForm_save(user, role, commit)
  \/ \E fails \in BOOLEAN : SignUpForm_save_user(fails)
  \/ \E fails \in BOOLEAN : SignUpForm_save_get_or_create(fails)
  \/ \E fails \in BOOLEAN : SignUpForm_save_add(fails)
  \/ \E other_group_name \in Roles, fails \in BOOLEAN :
       SignUpForm_save_remove(other_group_name, fails)

SignUpSpec == SignUpInit /\ [][SignUpNext]_vars

\* ------------------------------------------------- API client registration
\* the strings the token generator can return in the model: two of 64
\* characters and one of 22
TokenPool ==
  {"Zx3kQ9vT1mB7nR5pL2cW8yD4fH6jK0sA-uE_gIoMtNqPrSbVwXyCzDeFgHiJkLmN",
   "aB1cD2eF3gH4iJ5kL6mN7oP8qR9sT0uV-wX_yZaBcDeFgHiJkLmNoPqRsTuVwXyZ",
   "q1W2e3R4t5Y6u7I8o9P0aS"}

\* secrets.token_urlsafe(nbytes): base64 text of nbytes random bytes without
\* padding, that is ceil(4 * nbytes / 3) characters
token_urlsafe(nbytes) == {t \in TokenPool : Len(t) = (4 * nbytes + 2) \div 3}

\* the api_key an instance comes with: none (blank=True), one of 9 characters
\* or one of 40
GivenKeys == {"", "short-key", "0123456789abcdefghij0123456789ABCDEFGHIJ"}

\* everything but the state of the registration
outside_registry == <<workflow, requests, gateway, slugging, identity, feeds>>

\* ApiClient.clean: the instances it can leave, each with whether it raised
\* ValidationError
ApiClient_clean(self) ==
  LET keyed == IF self.api_key = ""
               THEN {[self EXCEPT !.api_key = t] : t \in token_urlsafe(48)}
               ELSE {self}
  IN {[instance |-> i, raised |-> Len(i.api_key) < 40] : i \in keyed}

\* Model.full_clean: clean(), then validate_unique() on api_key (unique=True)
full_clean(self) ==
  {[o EXCEPT !.raised = @ \/ \E pk \in DOMAIN api_client_rows :
                                api_client_rows[pk].api_key = o.instance.api_key] :
     o \in ApiClient_clean(self)}

\* save() writing a fresh key with every full UPDATE
ApiClient_save_rekeying(pk, instance, update_fields) ==
  /\ IF pk = 0
     THEN \E o \in full_clean(instance) :
            IF o.raised
            THEN /\ client_saved' = [pk |-> 0, given |-> instance.api_key,
                                     created |-> TRUE, result |-> "ValidationError"]
                 /\ UNCHANGED api_client_rows
            ELSE /\ api_client_rows' = Append(api_client_rows, o.instance)
                 /\ client_saved' = [pk |-> Len(api_client_rows) + 1,
                                     given |-> instance.api_key, created |-> TRUE,
                                     result |-> "saved"]
     ELSE /\ \E t \in token_urlsafe(48) :
               api_client_rows' =
                 [api_client_rows EXCEPT ![pk] =
                    IF update_fields = {}
                    THEN [instance EXCEPT !.api_key = t]
                    ELSE [f \in DOMAIN instance |->
                            IF f \in update_fields THEN instance[f]
                            ELSE api_client_rows[pk][f]]]
          /\ client_saved' = [pk |-> pk, given |-> instance.api_key,
                              created |-> FALSE, result |-> "saved"]
  /\ UNCHANGED outside_registry

\* ApiClient.save: an instance without pk goes through full_clean() and is
\* inserted unless that raised; an instance with a pk is written as it is,
\* every column or the columns of update_fields (empty: every column)
ApiClient_save(pk, instance, update_fields) ==
  /\ IF pk = 0
     THEN \E o \in full_clean(instance) :
            IF o.raised
            THEN /\ client_saved' = [pk |-> 0, given |-> instance.api_key,
                                     created |-> TRUE, result |-> "ValidationError"]
                 /\ UNCHANGED api_client_rows
            ELSE /\ api_client_rows' = Append(api_client_rows, o.instance)
                 /\ client_saved' = [pk |-> Len(api_client_rows) + 1,
                                     given |-> instance.api_key, created |-> TRUE,
                                     result |-> "saved"]
     ELSE /\ api_client_rows' =
               [api_client_rows EXCEPT ![pk] =
                  IF update_fields = {}
                  THEN instance
                  ELSE [f \in DOMAIN instance |->
                          IF f \in update_fields THEN instance[f]
                          ELSE api_client_rows[pk][f]]]
          /\ client_saved' = [pk |-> pk, given |-> instance.api_key,
                              created |-> FALSE, result |-> "saved"]
  /\ UNCHANGED outside_registry

KeyInit ==
  /\ api_client_rows = <<>>
  /\ client_saved = no_save
  /\ auth_user = {}
  /\ auth_group = {}
  /\ user_groups = {}
  /\ signup = no_form
  /\ created_at = <<>>
  /\ response = no_feed
  /\ slug_rows = <<>>
  /\ saves = [s \in Savers |-> resting]
  /\ api_clients = [k \in ApiKeys |-> [user |-> linked[k], is_active |-> TRUE,
                                       last_used_at |-> NULL]]
  /\ clock = 1
  /\ auth = unauthenticated
  /\ articles = <<>>
  /\ subscribed_publishers = [u \in Users |-> {}]
  /\ subscribed_journalists = [u \in Users |-> {}]
  /\ group_permissions = [g \in {"Reader", "Journalist", "Editor"} |-> {}]
  /\ batches = [a \in ArticleIds |-> 0]
  /\ outbox = EmptyBag
  /\ outcome = "init"
  /\ requests = [w \in Workers |-> idle]

\* ApiClient.objects.create(...), with is_active at its default; a loaded
\* client saved with is_active changed; and the save of authenticate(), which
\* writes last_used_at alone
KeyNext ==
  \/ \E api_key \in GivenKeys :
       ApiClient_save(0, [api_key |-> api_key, is_active |-> TRUE,
                          last_used_at |-> NULL], {})
  \/ \E pk \in DOMAIN api_client_rows :
       ApiClient_save(pk, [api_client_rows[pk] EXCEPT !.is_active = ~@], {})
  \/ \E pk \in DOMAIN api_client_rows, now \in 1..MaxClock :
       /\ now > api_client_rows[pk].last_used_at
       /\ ApiClient_save(pk, [api_client_rows[pk] EXCEPT !.last_used_at = now],
                         {"last_used_at"})

KeySpec == KeyInit /\ [][KeyNext]_vars

\* ---------------------------------------------------------------- queries
\* QuerySet.order_by('-published_at'): every row once, later publish time
\* first; the order among equal and among NULL times is the database's choice
order_by_published_at(rows) ==
  {result \in [1..Cardinality(rows) -> rows] :
     /\ \A i, j \in DOMAIN result : i # j => result[i] # result[j]
     /\ \A i, j \in DOMAIN result :
          (/\ i < j
           /\ articles[result[i]].published_at # NULL
           /\ articles[result[j]].published_at # NULL)
          => articles[result[i]].published_at >= articles[result[j]].published_at}

\* the subscribed feed with publisher__isnull=True left out of qs_indep
SubscribedArticlesFeed_without_isnull(user) ==
  LET pub_ids == subscribed_publishers[user]
      journ_ids == subscribed_journalists[user]
      qs_pub == {pk \in pks : /\ articles[pk].publisher \in pub_ids
                              /\ articles[pk].status = "published"}
      qs_indep == {pk \in pks : /\ articles[pk].author \in journ_ids
                                /\ articles[pk].status = "published"}
  IN order_by_published_at(qs_pub \cup qs_indep)

\* api_views.SubscribedArticlesFeed.get_queryset: (qs_pub | qs_indep).distinct().order_by(...)
SubscribedArticlesFeed_get_queryset(user) ==
  LET pub_ids == subscribed_publishers[user]
      journ_ids == subscribed_journalists[user]
      qs_pub == {pk \in pks : /\ articles[pk].publisher \in pub_ids
                              /\ articles[pk].status = "published"}
      qs_indep == {pk \in pks : /\ articles[pk].author \in journ_ids
                                /\ articles[pk].publisher = None
                                /\ articles[pk].status = "published"}
  IN order_by_published_at(qs_pub \cup qs_indep)

\* the personalized feed with publisher__isnull=True left out of
\* qs_independent_journalists
MyPersonalizedFeedView_without_isnull(user) ==
  LET followed_publisher_ids == subscribed_publishers[user]
      followed_journalist_ids == subscribed_journalists[user]
      qs_publisher == {pk \in pks : /\ articles[pk].publisher \in followed_publisher_ids
                                    /\ articles[pk].status = "published"}
      qs_independent_journalists ==
        {pk \in pks : /\ articles[pk].author \in followed_journalist_ids
                      /\ articles[pk].status = "published"}
  IN order_by_published_at(qs_publisher \cup qs_independent_journalists)

\* api_views.MyPersonalizedFeedView.get_queryset
MyPersonalizedFeedView_get_queryset(user) ==
  LET followed_publisher_ids == subscribed_publishers[user]
      followed_journalist_ids == subscribed_journalists[user]
      qs_publisher == {pk \in pks : /\ articles[pk].publisher \in followed_publisher_ids
                                    /\ articles[pk].status = "published"}
      qs_independent_journalists ==
        {pk \in pks : /\ articles[pk].author \in followed_journalist_ids
                      /\ articles[pk].publisher = None
                      /\ articles[pk].status = "published"}
  IN order_by_published_at(qs_publisher \cup qs_independent_journalists)

\* the web feed with status='published' left out of the filter
MyFeedView_any_status(user) ==
  IF ~is_reader(user) THEN {<<>>}
  ELSE LET pub_ids == subscribed_publishers[user]
           journ_ids == subscribed_journalists[user]
       IN order_by_published_at(
            {pk \in pks :
               \/ articles[pk].publisher \in pub_ids
               \/ (articles[pk].author \in journ_ids /\ articles[pk].publisher = None)})

\* views.MyFeedView.get_queryset
MyFeedView_get_queryset(user) ==
  IF ~is_reader(user) THEN {<<>>}
  ELSE LET pub_ids == subscribed_publishers[user]
           journ_ids == subscribed_journalists[user]
       IN order_by_published_at(
            {pk \in pks :
               /\ \/ articles[pk].publisher \in pub_ids
                  \/ (articles[pk].author \in journ_ids /\ articles[pk].publisher = None)
               /\ articles[pk].status = "published"})

\* api_views.ArticleListView.get_queryset
ArticleListView_get_queryset ==
  order_by_published_at({pk \in pks : articles[pk].status = "published"})

\* api_views.ArticleDetailView.get_queryset: the rows a detail lookup can return
ArticleDetailView_get_queryset ==
  {pk \in pks : articles[pk].status = "published"}

\* api_views.PublisherArticlesView.get_queryset
PublisherArticlesView_get_queryset(publisher) ==
  order_by_published_at(
    {pk \in pks : articles[pk].publisher = publisher /\ articles[pk].status = "published"})

\* api_views.JournalistArticlesView.get_queryset
JournalistArticlesView_get_queryset(journalist) ==
  order_by_published_at(
    {pk \in pks : articles[pk].author = journalist /\ articles[pk].status = "published"})

\* permissions.IsApiClientForSubscribedContent.has_object_permission, with
\* user the request.user the gateway attached and obj an Article row
has_object_permission(user, obj) ==
  IF obj.publisher # None
  THEN obj.publisher \in subscribed_publishers[user]
  ELSE IF is_journalist(obj.author)
  THEN obj.author \in subscribed_journalists[user]
  ELSE FALSE

\* ---------------------------------------------------------- feed requests
\* everything the feed views leave alone, the tables they read included
outside_response ==
  <<workflow, requests, gateway, slugging, identity, registry, created_at>>

\* the rows FeedSpec starts from: a draft, or an article published at some
\* time, by j1, independent or with a publisher
FeedRows ==
  {[blank EXCEPT !.author = "j1", !.publisher = publisher, !.status = status,
                 !.published_at = published_at] :
     publisher \in Publishers \cup {None},
     status \in {"draft", "published"},
     published_at \in NULL..MaxFeed}

\* api_views.SubscribedArticlesFeed answering a GET of an authenticated user
SubscribedArticlesFeed_get(user) ==
  /\ \E results \in SubscribedArticlesFeed_get_queryset(user) :
       response' = [view |-> "SubscribedArticlesFeed", user |-> user,
                    results |-> results]
  /\ UNCHANGED outside_response

\* api_views.MyPersonalizedFeedView answering a GET of an authenticated user
MyPersonalizedFeedView_get(user) ==
  /\ \E results \in MyPersonalizedFeedView_get_queryset(user) :
       response' = [view |-> "MyPersonalizedFeedView", user |-> user,
                    results |-> results]
  /\ UNCHANGED outside_response

\* views.MyFeedView answering a GET of a logged-in user
MyFeedView_get(user) ==
  /\ \E results \in MyFeedView_get_queryset(user) :
       response' = [view |-> "MyFeedView", user |-> user, results |-> results]
  /\ UNCHANGED outside_response

\* MaxFeed articles by j1, created one after the other (created_at never
\* decreases with the pk), a draft without publish time or published at some
\* time; r1 subscribed to some publishers; r1 and e1 following j1 or not
FeedInit ==
  /\ articles \in [1..MaxFeed -> {row \in FeedRows :
                                    row.status = "draft" <=> row.published_at = NULL}]
  /\ created_at \in {c \in [1..MaxFeed -> 1..MaxFeed] :
                       \A i, j \in 1..MaxFeed : i < j => c[i] <= c[j]}
  /\ \E P \in SUBSET Publishers :
       subscribed_publishers = [u \in Users |-> IF is_reader(u) THEN P ELSE {}]
  /\ \E R \in SUBSET {"j1"}, E \in SUBSET {"j1"} :
       subscribed_journalists =
         [u \in Users |-> IF is_reader(u) THEN R ELSE IF is_editor(u) THEN E ELSE {}]
  /\ response = no_feed
  /\ group_permissions = [g \in {"Reader", "Journalist", "Editor"} |-> {}]
  /\ batches = [a \in ArticleIds |-> 0]
  /\ outbox = EmptyBag
  /\ outcome = "init"
  /\ requests = [w \in Workers |-> idle]
  /\ api_clients = [k \in ApiKeys |-> [user |-> linked[k], is_active |-> TRUE,
                                       last_used_at |-> NULL]]
  /\ clock = 1
  /\ auth = unauthenticated
  /\ slug_rows = <<>>
  /\ saves = [s \in Savers |-> resting]
  /\ auth_user = {}
  /\ auth_group = {}
  /\ user_groups = {}
  /\ signup = no_form
  /\ api_client_rows = <<>>
  /\ client_saved = no_save

FeedNext ==
  \/ \E user \in Users : SubscribedArticlesFeed_get(user)
  \/ \E user \in Users : MyPersonalizedFeedView_get(user)
  \/ \E user \in Users : MyFeedView_get(user)

FeedSpec == FeedInit /\ [][FeedNext]_vars

\* ----------------------------------------------------------- subscriptions
\* the Publisher rows a subscription request can name in SubscribeSpec
Subscribable == Publishers \cup {"p2", "p3"}

\* subscription and follow requests on their own, from the state Spec starts in
SubscribeNext ==
  \/ \E user \in Actors, pk \in Subscribable : SubscribePublisherView_post(user, pk)
  \/ \E user \in Actors, username \in Users : follow_journalist(user, username)
  \/ \E user \in Actors, username \in Users : unfollow_journalist(user, username)

SubscribeSpec == Init /\ [][SubscribeNext]_vars

\* ----------------------------------------------------------------- claims
Range(f) == {f[i] : i \in DOMAIN f}

\* C1: for every user with subscribed publishers P and followed journalists J
\* the subscribed feed answers with a list (never an error) that holds exactly
\* the published articles whose publisher is in P, or whose publisher is null
\* and whose author is in J, each once; with P and J empty the list is empty.
C1_SubscribedFeedExact ==
  \A user \in Users :
    LET P == subscribed_publishers[user]
        J == subscribed_journalists[user]
        feed == SubscribedArticlesFeed_get_queryset(user)
    IN /\ feed # {}
       /\ \A result \in feed :
            /\ Range(result) =
                 {pk \in pks :
                    /\ articles[pk].status = "published"
                    /\ \/ articles[pk].publisher \in P
                       \/ (articles[pk].publisher = None /\ articles[pk].author \in J)}
            /\ \A i, j \in DOMAIN result : i # j => result[i] # result[j]
            /\ (P = {} /\ J = {}) => result = <<>>

\* a published independent article is in the feed of the reader who follows
\* its author and in nobody else's
C1_Witness ==
  \E pk \in pks :
    /\ articles[pk].status = "published"
    /\ articles[pk].publisher = None
    /\ articles[pk].author \in subscribed_journalists["r1"]
    /\ subscribed_publishers["r1"] = Publishers
    /\ subscribed_journalists["e1"] = {}
    /\ <<pk>> \in SubscribedArticlesFeed_get_queryset("r1")
    /\ SubscribedArticlesFeed_get_queryset("e1") = {<<>>}

\* every article some feed, listing or detail query returns
Listed ==
  UNION {Range(result) :
           result \in UNION ({SubscribedArticlesFeed_get_queryset(u) : u \in Users}
                        \cup {MyPersonalizedFeedView_get_queryset(u) : u \in Users}
                        \cup {MyFeedView_get_queryset(u) : u \in Users}
                        \cup {PublisherArticlesView_get_queryset(p) : p \in Publishers}
                        \cup {JournalistArticlesView_get_queryset(u) : u \in Users}
                        \cup {ArticleListView_get_queryset})}
  \cup ArticleDetailView_get_queryset

\* C2: no article whose status is other than published is returned by the
\* subscribed feed, the personalized feeds, the article list, the publisher
\* and journalist listings or the detail query, whoever subscribes or follows.
C2_OnlyPublishedListed ==
  \A pk \in pks : articles[pk].status # "published" => pk \notin Listed

\* an approval request left the article rejected or draft while its publisher
\* is subscribed and its author followed by the reader
C2_Witness ==
  \E pk \in pks :
    /\ articles[pk].status \in {"draft", "rejected"}
    /\ articles[pk].publisher \in subscribed_publishers["r1"]
    /\ articles[pk].author \in subscribed_journalists["r1"]
    /\ outcome = "info"

\* C3: in every reachable state published_at is set if and only if the
\* article's stored status is published.
C3_PublishedAtIffPublished ==
  \A pk \in pks :
    (articles[pk].published_at # NULL) <=> (articles[pk].status = "published")

\* C4: an approve request that chooses approval, made on a non-terminal
\* article by an actor who holds the change_article permission, leaves the
\* article stored as published with published_at set, and with approved_by
\* and approved_at recorded if and only if the actor is an Editor.
C4_ApprovalStoresPublished ==
  [][\A user \in Users, pk \in pks :
       (/\ has_perm(user, "change_article")
        /\ articles[pk].status \notin {"published", "rejected"}
        /\ article_approve(user, pk, "POST", "approved"))
       => /\ articles'[pk].status = "published"
          /\ articles'[pk].published_at # NULL
          /\ IF is_editor(user)
             THEN articles'[pk].approved_by = user /\ articles'[pk].approved_at # NULL
             ELSE articles'[pk].approved_by = None /\ articles'[pk].approved_at = NULL]_vars

\* C5: an approve request by a user who is not an Editor never changes the
\* stored status of any article.
C5_OnlyEditorsChangeStatus ==
  [][\A user \in Actors, pk \in ArticleIds, method \in Methods,
        new_status \in STATUS_CHOICES \cup {""} :
       (~is_editor(user) /\ article_approve(user, pk, method, new_status))
       => \A k \in pks : articles'[k].status = articles[k].status]_vars

\* C6 as claimed: an approve request on a published or rejected article, by
\* any actor with any chosen status, changes nothing, dispatches nothing and
\* is answered with a warning.
C6_TerminalNoOpWarningForAll ==
  [][\A user \in Actors, pk \in pks, method \in Methods,
        new_status \in STATUS_CHOICES \cup {""} :
       (/\ articles[pk].status \in {"published", "rejected"}
        /\ article_approve(user, pk, method, new_status))
       => /\ articles' = articles
          /\ batches' = batches
          /\ outbox' = outbox
          /\ outcome' = "warning"]_vars

\* C6: an approve request on a published or rejected article, by any actor
\* with any chosen status, changes no field of any article and dispatches
\* nothing; it is answered with a warning when the actor is logged in and
\* holds change_article, with the login redirect when the actor is anonymous
\* and with 403 when the actor lacks the permission.
C6_TerminalNoOp ==
  [][\A pk \in pks :
       articles[pk].status \in {"published", "rejected"} =>
       \A user \in Actors :
         \/ /\ outcome' = IF user = Anonymous THEN "login"
                          ELSE IF ~has_perm(user, "change_article") THEN "forbidden"
                          ELSE "warning"
            /\ articles' = articles
            /\ batches' = batches
            /\ outbox' = outbox
         \/ \A method \in Methods, new_status \in STATUS_CHOICES \cup {""} :
              ~article_approve(user, pk, method, new_status)]_vars

\* an approve request on a rejected article has been answered with the warning
C6_Witness ==
  /\ outcome = "warning"
  /\ \E pk \in pks : articles[pk].status = "rejected"

\* C7: an approve request with a chosen status other than approval changes
\* only the article's status (published_at, approved_by, approved_at and the
\* notification flag keep their values) and dispatches no notification.
C7_OtherStatusOnlyStatus ==
  [][\A user \in Actors, pk \in pks, method \in Methods,
        new_status \in (STATUS_CHOICES \cup {""}) \ {"approved"} :
       article_approve(user, pk, method, new_status)
       => /\ articles'[pk] = [articles[pk] EXCEPT !.status = articles'[pk].status]
          /\ batches' = batches
          /\ outbox' = outbox]_vars

\* the edges of the specified state machine
SpecEdges ==
  {<<"draft", "pending">>, <<"pending", "approved">>, <<"pending", "rejected">>,
   <<"approved", "published">>}

\* the edges the views take
ViewEdges ==
  {<<"draft", "pending">>, <<"draft", "rejected">>, <<"draft", "published">>,
   <<"pending", "draft">>, <<"pending", "rejected">>, <<"pending", "published">>}

C9_OneBatchPerPublish ==
  \A pk \in ArticleIds :
    batches[pk] = IF pk \in pks /\ articles[pk].status = "published" THEN 1 ELSE 0

\* a published article with its one batch, after a repeated approve request
\* was turned away
C9_Witness ==
  \E pk \in pks :
    /\ articles[pk].status = "published"
    /\ articles[pk].notifications_sent
    /\ batches[pk] = 1
    /\ outbox # EmptyBag
    /\ outcome = "warning"

\* the claimed recipient set of a publish notification
Audience(article) ==
  (IF article.publisher # None
   THEN {u \in Users : article.publisher \in subscribed_publishers[u]} ELSE {})
  \cup
  (IF "Journalist" \in groups[article.author]
   THEN {u \in Users : article.author \in subscribed_journalists[u]} ELSE {})

C11_FlagStoredBeforeDispatch ==
  [][\A pk \in pks :
       batches'[pk] > batches[pk] => articles[pk].notifications_sent]_vars

\* C12: when the mail transport raises during a request's dispatch, no stored
\* article changes in that step (the publish is not rolled back), the request
\* goes on to store notifications_sent = TRUE leaving the stored status and
\* published_at as they are, it ends with the response it would have given
\* anyway (the error does not reach the caller), and it never dispatches again.
C12_DispatchFailureSwallowed ==
  [][\A w \in Workers :
       /\ (requests[w].pc = "dispatch" /\ requests'[w] # requests[w])
          => (requests'[w].mail = "raised"
              => /\ articles' = articles
                 /\ requests'[w].pc = "flag"
                 /\ requests'[w].response = requests[w].response)
       /\ (requests[w].mail = "raised" /\ requests'[w] # requests[w])
          => /\ requests[w].pc = "flag"
             /\ requests'[w].pc = "done"
             /\ requests'[w].mail = "raised"
             /\ requests'[w].response \in {"success", "info"}
             /\ batches' = batches
             /\ articles' = [articles EXCEPT ![requests[w].pk].notifications_sent = TRUE]]_vars

\* an editor's approval whose mail could not be handed over has ended with
\* "Article published.": the article is stored published with its timestamp
\* and with the flag set, after one pass of the dispatch block
C12_Witness ==
  \E w \in Workers :
    /\ requests[w].pc = "done"
    /\ requests[w].mail = "raised"
    /\ requests[w].response = "success"
    /\ articles[requests[w].pk].status = "published"
    /\ articles[requests[w].pk].published_at # NULL
    /\ articles[requests[w].pk].notifications_sent
    /\ batches[requests[w].pk] = 1
    /\ outbox = EmptyBag

\* C13: when two approve requests by an editor for the same article have
\* both loaded it non-terminal and with notifications_sent = FALSE, both
\* dispatch a notification batch: once both have ended, two batches (or more)
\* have gone out for that one article.
C13_BothDispatch ==
  \A w1, w2 \in Workers :
    (/\ w1 # w2
     /\ requests[w1].pk = requests[w2].pk
     /\ \A w \in {w1, w2} :
          /\ requests[w].pc = "done"
          /\ requests[w].user \in Users
          /\ "Editor" \in groups[requests[w].user]
          /\ requests[w].new_status = "approved"
          /\ requests[w].loaded.status \notin {"published", "rejected"}
          /\ ~requests[w].loaded.notifications_sent)
    => batches[requests[w1].pk] >= 2

\* two approvals of one article have both handed their mail to the transport
C13_Witness ==
  \E w1, w2 \in Workers :
    /\ w1 # w2
    /\ requests[w1].pc = "done" /\ requests[w2].pc = "done"
    /\ requests[w1].mail = "sent" /\ requests[w2].mail = "sent"
    /\ requests[w1].new_status = "approved" /\ requests[w2].new_status = "approved"
    /\ requests[w1].pk = 1 /\ requests[w2].pk = 1
    /\ batches[1] = 2
    /\ outbox # EmptyBag

\* the key a request presents: the X-API-Key header, else the api_key parameter
PresentedKey(header, query) == IF header # "" THEN header ELSE query

\* C14: a request that presents no API key (neither header nor query
\* parameter) is not rejected: authenticate returns None without raising,
\* without looking up any client and without changing any client row.
C14_NoKeyNoOpinion ==
  [][\A store_fails \in BOOLEAN :
       authenticate("", "", store_fails)
       => /\ auth'.ret = "None"
          /\ ~auth'.queried
          /\ api_clients' = api_clients]_vars

\* a request without a key got None after an earlier request had used k1
C14_Witness ==
  /\ auth.ret = "None"
  /\ api_clients["k1"].last_used_at # NULL

C16_LastUsedAdvances ==
  [][/\ \A header \in Presented, query \in Presented :
          LET key == PresentedKey(header, query)
          IN (/\ key \in ApiKeys
              /\ api_clients[key].is_active
              /\ authenticate(header, query, FALSE))
             => /\ auth'.ret = "user"
                /\ auth'.user = api_clients[key].user
                /\ auth'.client = key
                /\ api_clients'[key].last_used_at >= clock
                /\ \A k \in ApiKeys \ {key} : api_clients'[k] = api_clients[k]
     /\ \A k \in ApiKeys :
          api_clients'[k].last_used_at >= api_clients[k].last_used_at]_vars

\* k1 has authenticated as r1 after time had passed; k2 was never used
C16_Witness ==
  /\ auth.ret = "user"
  /\ auth.user = "r1"
  /\ api_clients["k1"].last_used_at = clock
  /\ clock > 1
  /\ api_clients["k2"].last_used_at = NULL

\* C17: if storing last_used_at fails during authentication with the key of
\* an active client, the request is still authenticated as the linked user.
C17_StoreFailureTolerated ==
  [][\A header \in Presented, query \in Presented :
       LET key == PresentedKey(header, query)
       IN (/\ key \in ApiKeys
           /\ api_clients[key].is_active
           /\ authenticate(header, query, TRUE))
          => /\ auth'.ret = "user"
             /\ auth'.user = api_clients[key].user]_vars

\* C18: for a client authenticated through the API-key gateway, the scoping
\* gate has_object_permission grants access to an article only if the article
\* is in the linked user's feed output: published, and either its publisher
\* is subscribed by that user or it is independent and its author followed.
C18_GateWithinFeed ==
  \A k \in ApiKeys, pk \in pks :
    LET user == api_clients[k].user
    IN has_object_permission(user, articles[pk])
       => \A result \in SubscribedArticlesFeed_get_queryset(user) : pk \in Range(result)

\* "hello-world" and "hello-world-1", spelled out
hello_world == <<"h", "e", "l", "l", "o", "-", "w", "o", "r", "l", "d">>

hello_world_1 == hello_world \o <<"-", "1">>

\* the claimed slug of an article with this title, given the slugs of the
\* other articles: the slugified title, or with -k for the smallest free k
ExpectedSlug(title, others) ==
  LET base == slugify(title)
      suffixed(k) == base \o <<"-">> \o str(k)
  IN IF base \notin others THEN base
     ELSE suffixed(CHOOSE k \in 1..(Cardinality(others) + 1) :
                     /\ suffixed(k) \notin others
                     /\ \A j \in 1..(k - 1) : suffixed(j) \in others)

\* C19: a save() of an article with an empty slug, with no other save
\* writing meanwhile, stores as its slug the slugified title if no other
\* article has that slug, and otherwise the slugified title followed by -k for
\* the smallest k >= 1 such that no other article has that slug; "Hello World"
\* gets "hello-world", and "hello-world-1" when only "hello-world" is taken.
C19_SlugFromTitle ==
  [][\A s \in Savers :
       LET r == saves[s]
           others == {slug_rows[i].slug : i \in DOMAIN slug_rows \ {r.pk}}
           pk == IF r.pk = 0 THEN Len(slug_rows) + 1 ELSE r.pk
       IN (r.pc = "write" /\ saves'[s].pc = "idle" /\ r.given = <<>> /\ r.undisturbed)
          => /\ saves'[s].result = "saved"
             /\ pk \in DOMAIN slug_rows'
             /\ slug_rows'[pk].slug = ExpectedSlug(r.title, others)
             /\ (r.title = HelloWorld /\ others = {})
                => slug_rows'[pk].slug = hello_world
             /\ (r.title = HelloWorld /\ others = {hello_world})
                => slug_rows'[pk].slug = hello_world_1]_vars

\* two articles titled "Hello World" were created in turn
C19_Witness ==
  /\ Len(slug_rows) >= 2
  /\ slug_rows[1] = [title |-> HelloWorld, slug |-> hello_world]
  /\ slug_rows[2] = [title |-> HelloWorld, slug |-> hello_world_1]
  /\ \A s \in Savers : saves[s].pc = "idle"

\* C20: in every reachable state, also when same-titled articles are created
\* concurrently and both run the uniqueness probe before either is stored, no
\* two stored articles have the same slug.
C20_SlugsUnique ==
  \A i, j \in DOMAIN slug_rows :
    i # j => slug_rows[i].slug # slug_rows[j].slug

\* two creations of "Hello World" both probed the empty table: one is stored
\* as "hello-world", the other ended with the uniqueness violation
C20_Witness ==
  /\ slug_rows = <<[title |-> HelloWorld, slug |-> hello_world]>>
  /\ saves["s1"].result = "saved"
  /\ saves["s2"].result = "IntegrityError"

\* C21: when SignUpForm.save has assigned a role (commit=True and the call
\* returned), the user is stored, the flag of the chosen role is true and the
\* flags of the two other roles are false, whatever the user held before.
C21_RoleExclusive ==
  (signup.pc = "idle" /\ signup.result = "returned") =>
    /\ signup.user \in auth_user
    /\ role_flags(signup.user) =
         [is_reader |-> signup.role = "reader",
          is_journalist |-> signup.role = "journalist",
          is_editor |-> signup.role = "editor"]

\* a user who held the Reader and the Journalist group is an Editor only,
\* after a save() that chose editor and returned
C21_Witness ==
  /\ signup.pc = "idle"
  /\ signup.result = "returned"
  /\ signup.role = "editor"
  /\ role_flags(signup.user) =
       [is_reader |-> FALSE, is_journalist |-> FALSE, is_editor |-> TRUE]
  /\ \E other \in Applicants \ {signup.user} :
       role_groups(other) = {"Reader", "Journalist"}

\* C22: a SignUpForm.save that fails at some step leaves its user, if stored,
\* with exactly one role group.
C22_AssignmentAtomic ==
  (signup.pc = "idle" /\ signup.result = "raised" /\ signup.user \in auth_user) =>
    Cardinality(role_groups(signup.user)) = 1

\* C23: a client created through save() without a key is stored with a
\* generated key of at least 40 characters, and no later save of a stored
\* client changes (or removes) its key.
C23_KeyGeneratedOnce ==
  [][/\ \A pk \in DOMAIN api_client_rows :
          /\ pk \in DOMAIN api_client_rows'
          /\ api_client_rows'[pk].api_key = api_client_rows[pk].api_key
     /\ (/\ Len(api_client_rows') > Len(api_client_rows)
         /\ client_saved'.given = "")
          => /\ api_client_rows'[client_saved'.pk].api_key \in token_urlsafe(48)
             /\ Len(api_client_rows'[client_saved'.pk].api_key) >= 40]_vars

\* a client with a generated key has been deactivated and used, by saves of
\* the stored instance, and still has that key
C23_Witness ==
  /\ client_saved.result = "saved"
  /\ ~client_saved.created
  /\ \E pk \in DOMAIN api_client_rows :
       /\ api_client_rows[pk].api_key \in token_urlsafe(48)
       /\ ~api_client_rows[pk].is_active
       /\ api_client_rows[pk].last_used_at # NULL

\* C24: the result of the subscribed feed is ordered by descending publish
\* time, and articles with equal publish time by descending creation time.
C24_FeedOrder ==
  response.view = "SubscribedArticlesFeed" =>
    \A i, j \in DOMAIN response.results :
      i < j =>
        LET a == response.results[i]
            b == response.results[j]
        IN \/ articles[a].published_at > articles[b].published_at
           \/ /\ articles[a].published_at = articles[b].published_at
              /\ created_at[a] >= created_at[b]

\* C27: for a user holding the Reader role, the web feed and the two API
\* feeds return the same set of articles, whatever the stored articles and
\* subscriptions; for a user without the Reader role the web feed is empty.
C27_FeedsAgree ==
  \A user \in Users :
    LET web == {Range(result) : result \in MyFeedView_get_queryset(user)}
        subscribed == {Range(result) : result \in SubscribedArticlesFeed_get_queryset(user)}
        personalized ==
          {Range(result) : result \in MyPersonalizedFeedView_get_queryset(user)}
    IN IF is_reader(user)
       THEN web = subscribed /\ web = personalized
       ELSE web = {{}}

\* the web feed has answered the reader with an article of a subscribed
\* publisher's and an independent one of a followed journalist, and an
\* editor who follows the journalist gets articles from the API feed
C27_Witness ==
  /\ response.view = "MyFeedView"
  /\ is_reader(response.user)
  /\ \E i, j \in DOMAIN response.results :
       /\ articles[response.results[i]].publisher # None
       /\ articles[response.results[j]].publisher = None
  /\ \E user \in Users :
       /\ ~is_reader(user)
       /\ SubscribedArticlesFeed_get_queryset(user) # {<<>>}

\* C25: article_create stores a new article only for a logged-in Journalist,
\* and the stored article is pending, has the acting user as author, no
\* publish time and notifications_sent false; the other rows stay as they
\* are, and a request by anyone else stores nothing.
C25_CreateStoresPending ==
  [][\A user \in Actors, method \in Methods :
       \A publisher \in FormData(method, Publishers) :
         article_create(user, method, publisher) =>
           /\ articles' # articles =>
                /\ is_journalist(user)
                /\ Len(articles') = Len(articles) + 1
                /\ SubSeq(articles', 1, Len(articles)) = articles
                /\ articles'[Len(articles')].status = "pending"
                /\ articles'[Len(articles')].author = user
                /\ articles'[Len(articles')].published_at = NULL
                /\ articles'[Len(articles')].notifications_sent = FALSE
           /\ ~is_journalist(user) => articles' = articles]_vars

\* the journalist's article is stored, pending, and the view has answered
\* with the success message
C25_Witness ==
  /\ outcome = "success"
  /\ \E pk \in pks :
       /\ articles[pk].status = "pending"
       /\ articles[pk].author = "j1"
       /\ articles[pk].published_at = NULL
       /\ articles[pk].approved_by = None
       /\ ~articles[pk].notifications_sent
  /\ batches = [a \in ArticleIds |-> 0]
  /\ \A u \in Users : subscribed_publishers[u] = {} /\ subscribed_journalists[u] = {}

\* C26: once a row is stored with status published or rejected, no step of
\* any approve request changes its stored status, two requests that both
\* loaded the pending article included.
C26_TerminalStatusStays ==
  [][\A pk \in pks :
       articles[pk].status \in {"published", "rejected"} =>
         articles'[pk].status = articles[pk].status]_vars

\* C28: a post by a Reader adds the publisher to the reader's subscriptions
\* if it is absent and removes it if present, so that a second post for the
\* same publisher gives the original set back; no other publisher, no other
\* user and no follow is affected; a post by anyone else changes nothing, and
\* after the post every user subscribed to a publisher holds the Reader role.
C28_SubscribeToggles ==
  [][\A user \in Actors, pk \in Subscribable :
       SubscribePublisherView_post(user, pk) =>
         /\ IF is_reader(user)
            THEN /\ pk \in subscribed_publishers'[user] <=>
                      pk \notin subscribed_publishers[user]
                 /\ subscribed_publishers'[user] \ {pk} =
                      subscribed_publishers[user] \ {pk}
                 /\ \A other \in Users \ {user} :
                      subscribed_publishers'[other] = subscribed_publishers[other]
                 /\ LET again == IF pk \in subscribed_publishers'[user]
                                 THEN subscribed_publishers'[user] \ {pk}
                                 ELSE subscribed_publishers'[user] \cup {pk}
                    IN again = subscribed_publishers[user]
            ELSE subscribed_publishers' = subscribed_publishers
         /\ subscribed_journalists' = subscribed_journalists
         /\ \A u \in Users : subscribed_publishers'[u] # {} => is_reader(u)]_vars

\* the reader has subscribed and unsubscribed: two of three publishers are
\* left in the set, next to a follow, and the latest post was answered with
\* a success message
C28_Witness ==
  /\ outcome = "success"
  /\ subscribed_publishers["r1"] = {"p2", "p3"}
  /\ subscribed_journalists["r1"] = {"j1"}
  /\ \A u \in Users \ {"r1"} : subscribed_publishers[u] = {}

\* C29: a stored article whose approved_by is set has an Editor as approver,
\* approved_at set and status published.
C29_ApproverIsEditor ==
  \A pk \in pks :
    articles[pk].approved_by # None =>
      /\ is_editor(articles[pk].approved_by)
      /\ articles[pk].approved_at # NULL
      /\ articles[pk].status = "published"

\* an approve request of the editor has published the article and finished,
\* notification flag included
C29_Witness ==
  \E w \in Workers :
    /\ requests[w].pc = "done"
    /\ requests[w].pk \in pks
    /\ articles[requests[w].pk].approved_by = requests[w].user
    /\ articles[requests[w].pk].approved_at # NULL
    /\ articles[requests[w].pk].status = "published"
    /\ articles[requests[w].pk].notifications_sent

\* C30: a stored article whose notifications_sent flag is true has status
\* published: the flag is never stored as true on a draft, pending, approved
\* or rejected article.
C30_FlagOnlyWhenPublished ==
  \A pk \in pks :
    articles[pk].notifications_sent => articles[pk].status = "published"
====
